---------------------------- MODULE Spec2Model ----------------------------
(***************************************************************************)
(* API-key dashboard: the api_keys table (supabase-schema.sql), the        *)
(* /api/keys routes (app/api/keys/route.ts and the [id] route) and the     *)
(* view-model of app/dashboards/page.tsx (GrootApiKeyDashboard).           *)
(*                                                                         *)
(* Timestamps are integers read from one clock `now`.  A nullable          *)
(* timestamp is a sequence: <<>> for null, <<t>> for the instant t.        *)
(* A JSON body or a query string is a function whose DOMAIN is the set of  *)
(* keys that are present.                                                   *)
(***************************************************************************)
EXTENDS Integers, Sequences, FiniteSets, TLC

VARIABLES
    store,              \* rows of table api_keys
    nextId,             \* next value of gen_random_uuid()
    now,                \* NOW()
    tasks,              \* HTTP exchanges in flight, with the handler awaiting each
    opCount,            \* requests issued so far by handler invocations
    inputCount,         \* synchronous user inputs so far
    keys,               \* useState keys
    loading,            \* useState loading
    error,              \* useState error
    newName,            \* useState newName
    newScopes,          \* useState newScopes
    newEnvironment,     \* useState newEnvironment
    editingId,          \* useState editingId
    editDraft,          \* useState editDraft
    revealedSecrets,    \* useState revealedSecrets
    copiedId,           \* useState copiedId
    clipboard,          \* text held by navigator.clipboard
    showToast,          \* useState showToast
    toastMessage,       \* useState toastMessage
    toastType,          \* useState toastType
    filterStatus,       \* useState filterStatus
    filterEnvironment,  \* useState filterEnvironment
    isModalOpen,        \* useState isModalOpen
    timers              \* pending setTimeout callbacks of showToastNotification

serverVars == <<store, nextId, now>>
listVars   == <<keys, loading, error>>
formVars   == <<newName, newScopes, newEnvironment, isModalOpen>>
editVars   == <<editingId, editDraft>>
rowVars    == <<revealedSecrets, copiedId, clipboard>>
toastVars  == <<showToast, toastMessage, toastType, timers>>
filterVars == <<filterStatus, filterEnvironment>>
viewVars   == <<listVars, formVars, editVars, rowVars, toastVars, filterVars>>
vars       == <<serverVars, tasks, opCount, inputCount, viewVars>>

----------------------------------------------------------------------------
(* Bounds of the model *)

MaxOps    == 2   \* handler invocations that issue a request, per behaviour
MaxInputs == 2   \* synchronous user inputs (typing, picking, opening), per behaviour
MaxId     == 4    \* ids the store hands out (3 seed rows + creations)
MaxTime   == 8    \* last instant of the clock

----------------------------------------------------------------------------
(* Schema: supabase-schema.sql *)

Statuses     == {"active", "revoked"}
Environments == {"production", "staging", "development"}

NoId     == 0          \* null id (editingId, copiedId); no row has it
SeedTime == 7          \* NOW() when the schema script ran

SeedRows ==
    { [id |-> 1, name |-> "Production API Key",
       secret |-> "groot_live_43fj9dhwq22n0x9p", status |-> "active",
       scopes |-> <<"read", "write">>, created_at |-> 2, last_used |-> <<5>>,
       environment |-> "production", updated_at |-> SeedTime],
      [id |-> 2, name |-> "Staging Integration",
       secret |-> "groot_test_8ddm112ay2l288de", status |-> "active",
       scopes |-> <<"read">>, created_at |-> 1, last_used |-> <<4>>,
       environment |-> "staging", updated_at |-> SeedTime],
      [id |-> 3, name |-> "Development Testing",
       secret |-> "groot_dev_xx330qwe992155aa", status |-> "active",
       scopes |-> <<"read", "write", "admin">>, created_at |-> 3, last_used |-> <<6>>,
       environment |-> "development", updated_at |-> SeedTime] }

Ids(rows) == {r.id : r \in rows}

\* faulty variant: the column is declared without UNIQUE
UniqueSecret_Dropped(rows, row) == TRUE

\* secret TEXT NOT NULL UNIQUE
UniqueSecret(rows, row) ==
    \A r \in rows : r.id # row.id => r.secret # row.secret

\* faulty variant: only the CHECK constraints are enforced
ConstraintsOk_NoUnique(rows, row) ==
    /\ row.status \in Statuses
    /\ row.environment \in Environments

\* the CHECK constraints and the UNIQUE constraint a written row must satisfy
ConstraintsOk(rows, row) ==
    /\ row.status \in Statuses
    /\ row.environment \in Environments
    /\ UniqueSecret(rows, row)

\* faulty variant: the trigger stamps the wrong column
UpdateTrigger_WrongColumn(new) == [new EXCEPT !.created_at = now]

\* BEFORE UPDATE trigger update_updated_at_column
UpdateTrigger(new) == [new EXCEPT !.updated_at = now]

----------------------------------------------------------------------------
(* Route GET /api/keys *)

\* faulty variant: the "all" sentinel is compared like any other value
FilterOn_NoSentinel(params, k) ==
    /\ k \in DOMAIN params
    /\ params[k] # ""

\* `status && status !== 'all'`: searchParams.get gives null for an absent key
FilterOn(params, k) ==
    /\ k \in DOMAIN params
    /\ params[k] # ""
    /\ params[k] # "all"

\* .eq('status', status) and .eq('environment', environment)
ListQuery(rows, params) ==
    { r \in rows :
        /\ FilterOn(params, "status") => r.status = params["status"]
        /\ FilterOn(params, "environment") => r.environment = params["environment"] }

MaxCreated(rows) == CHOOSE m \in {r.created_at : r \in rows} :
                        \A r \in rows : r.created_at <= m

\* .order('created_at', {ascending: false}): every ordering of the rows by
\* created_at descending; rows with equal created_at come in any order
RECURSIVE Orderings(_)
Orderings(rows) ==
    IF rows = {} THEN {<<>>}
    ELSE UNION { { <<r>> \o rest : rest \in Orderings(rows \ {r}) } :
                 r \in {x \in rows : x.created_at = MaxCreated(rows)} }

----------------------------------------------------------------------------
(* Route POST /api/keys *)

\* faulty variant: the field is compared with undefined, so "" passes
Falsy_UndefinedOnly(body, k) == k \notin DOMAIN body

\* !x for a string field: undefined, null and "" are falsy
Falsy(body, k) == k \notin DOMAIN body \/ body[k] = ""

\* !scopes for an array field: only undefined/null is falsy, [] is truthy
FalsyArray(body, k) == k \notin DOMAIN body

\* if (!name || !secret || !scopes || !environment) return 400
PostInvalid(body) ==
    \/ Falsy(body, "name")
    \/ Falsy(body, "secret")
    \/ FalsyArray(body, "scopes")
    \/ Falsy(body, "environment")

\* faulty variant: the row is built by spreading the body over the defaults
InsertRow_BodySpread(body) ==
    [id |-> nextId, name |-> body["name"], secret |-> body["secret"],
     status |-> IF "status" \in DOMAIN body THEN body["status"] ELSE "active",
     scopes |-> body["scopes"],
     created_at |-> now,
     last_used |-> IF "last_used" \in DOMAIN body THEN body["last_used"] ELSE <<>>,
     environment |-> body["environment"], updated_at |-> now]

\* the row of .insert([{name, secret, status: 'active', scopes, environment,
\* last_used: null}]) with the column defaults id, created_at, updated_at
InsertRow(body) ==
    [id |-> nextId, name |-> body["name"], secret |-> body["secret"],
     status |-> "active", scopes |-> body["scopes"],
     created_at |-> now, last_used |-> <<>>,
     environment |-> body["environment"], updated_at |-> now]

----------------------------------------------------------------------------
(* Route PATCH /api/keys/[id] and DELETE /api/keys/[id] *)

PatchFields == {"name", "secret", "status", "scopes", "environment", "last_used"}

\* update(id, patch): the patched fields overwrite the row's
ApplyPatch(row, body) ==
    [f \in DOMAIN row |->
        IF f \in DOMAIN body /\ f \in PatchFields THEN body[f] ELSE row[f]]

Row(rows, id) == CHOOSE r \in rows : r.id = id


----------------------------------------------------------------------------
(* HTTP exchanges.  A task is one request/response pair together with the   *)
(* handler invocation that awaits it: op names the handler ("api" for a     *)
(* client other than the dashboard), id is the handler's id argument, fS/fE *)
(* are the filter selection the handler's closure captured, n numbers the   *)
(* invocations in issue order.                                              *)

NoBody   == <<>>
NoParams == <<>>

Request(method, id, params, body) ==
    [method |-> method, id |-> id, params |-> params, body |-> body]

Task(n, op, req, fS, fE) ==
    [n |-> n, op |-> op, id |-> req.id, req |-> req, stage |-> "req",
     status |-> 0, data |-> <<>>, fS |-> fS, fE |-> fE]

Respond(t, status, data) ==
    [t EXCEPT !.stage = "resp", !.status = status, !.data = data]

Replace(t, u) == (tasks \ {t}) \cup {u}

\* response.ok
Ok(t) == t.status \in 200..299

\* GET(request), route.ts
ServeGet(t) ==
    /\ t \in tasks /\ t.stage = "req" /\ t.req.method = "GET"
    /\ \E data \in Orderings(ListQuery(store, t.req.params)) :
          tasks' = Replace(t, Respond(t, 200, data))
    /\ UNCHANGED <<serverVars, opCount, inputCount, viewVars>>

\* POST(request), route.ts
ServePost(t) ==
    /\ t \in tasks /\ t.stage = "req" /\ t.req.method = "POST"
    /\ IF PostInvalid(t.req.body)
       THEN /\ tasks' = Replace(t, Respond(t, 400, <<>>))
            /\ UNCHANGED <<store, nextId>>
       ELSE LET row == InsertRow(t.req.body) IN
            IF ConstraintsOk(store, row)
            THEN /\ store' = store \cup {row}
                 /\ nextId' = nextId + 1
                 /\ tasks' = Replace(t, Respond(t, 201, <<row>>))
            ELSE /\ tasks' = Replace(t, Respond(t, 500, <<>>))
                 /\ UNCHANGED <<store, nextId>>
    /\ UNCHANGED <<now, opCount, inputCount, viewVars>>

\* PATCH /api/keys/[id]
ServePatch(t) ==
    /\ t \in tasks /\ t.stage = "req" /\ t.req.method = "PATCH"
    /\ IF t.req.id \notin Ids(store)
       THEN /\ tasks' = Replace(t, Respond(t, 404, <<>>))
            /\ UNCHANGED store
       ELSE LET old == Row(store, t.req.id)
                new == UpdateTrigger(ApplyPatch(old, t.req.body)) IN
            IF ConstraintsOk(store, new)
            THEN /\ store' = (store \ {old}) \cup {new}
                 /\ tasks' = Replace(t, Respond(t, 200, <<new>>))
            ELSE /\ tasks' = Replace(t, Respond(t, 500, <<>>))
                 /\ UNCHANGED store
    /\ UNCHANGED <<nextId, now, opCount, inputCount, viewVars>>

\* DELETE /api/keys/[id]
ServeDelete(t) ==
    /\ t \in tasks /\ t.stage = "req" /\ t.req.method = "DELETE"
    /\ IF t.req.id \notin Ids(store)
       THEN /\ tasks' = Replace(t, Respond(t, 404, <<>>))
            /\ UNCHANGED store
       ELSE /\ store' = store \ {Row(store, t.req.id)}
            /\ tasks' = Replace(t, Respond(t, 200, <<>>))
    /\ UNCHANGED <<nextId, now, opCount, inputCount, viewVars>>

\* the store query fails or the handler throws: 500, nothing written
ServeFail(t) ==
    /\ t \in tasks /\ t.stage = "req"
    /\ t.req.method = "POST" => ~PostInvalid(t.req.body)
    /\ tasks' = Replace(t, Respond(t, 500, <<>>))
    /\ UNCHANGED <<serverVars, opCount, inputCount, viewVars>>

\* the clock advances
Tick ==
    /\ now < MaxTime
    /\ now' = now + 1
    /\ UNCHANGED <<store, nextId, tasks, opCount, inputCount, viewVars>>

----------------------------------------------------------------------------
(* Initial state: the schema script has run, the component is constructed  *)

InitServer ==
    /\ store = SeedRows
    /\ nextId = 4
    /\ now = SeedTime

InitView ==
    /\ keys = <<>>
    /\ loading = TRUE
    /\ error = "null"
    /\ newName = ""
    /\ newScopes = <<"read">>
    /\ newEnvironment = "development"
    /\ editingId = NoId
    /\ editDraft = [name |-> "", scopes |-> <<>>, environment |-> "development"]
    /\ revealedSecrets = {}
    /\ copiedId = NoId
    /\ clipboard = ""
    /\ showToast = FALSE
    /\ toastMessage = ""
    /\ toastType = "success"
    /\ filterStatus = "all"
    /\ filterEnvironment = "all"
    /\ isModalOpen = FALSE
    /\ timers = 0

----------------------------------------------------------------------------
(* View-model: GrootApiKeyDashboard, page.tsx *)

\* what the user types or picks
NameInputs  == {"", "  ", " Mobile key "}
ScopeInputs == {"read", "write"}
\* values of rand()+rand()+rand() in generateSecret
RandomSuffixes == {"xx330qwe992155aa", "k3j9x0"}

\* String.prototype.trim
RECURSIVE TrimStart(_)
TrimStart(str) ==
    IF Len(str) > 0 /\ SubSeq(str, 1, 1) = " "
    THEN TrimStart(SubSeq(str, 2, Len(str))) ELSE str

RECURSIVE TrimEnd(_)
TrimEnd(str) ==
    IF Len(str) > 0 /\ SubSeq(str, Len(str), Len(str)) = " "
    THEN TrimEnd(SubSeq(str, 1, Len(str) - 1)) ELSE str

\* faulty variant: the string is taken as typed
Trim_AsTyped(str) == str

Trim(str) == TrimEnd(TrimStart(str))

generateSecret(env, rand) ==
    LET prefix == IF env = "production" THEN "live"
                  ELSE IF env = "staging" THEN "test" ELSE "dev"
    IN  "groot_" \o prefix \o "_" \o rand

Includes(seq, x) == \E i \in DOMAIN seq : seq[i] = x

\* toggleScope: the next value handed to the setter
toggleScope(scopes, scope) ==
    IF Includes(scopes, scope)
    THEN SelectSeq(scopes, LAMBDA x : x # scope)
    ELSE Append(scopes, scope)

\* keys.find((k) => k.id === id)
Find(list, id) == list[CHOOSE i \in DOMAIN list : list[i].id = id]
Has(list, id)  == \E i \in DOMAIN list : list[i].id = id

\* faulty variant: the list is shown as the server returned it
FilterMatch_Unfiltered(key, fS, fE) == TRUE

\* the predicate of keys.filter in filteredKeys
FilterMatch(key, fS, fE) ==
    /\ fS = "all" \/ key.status = fS
    /\ fE = "all" \/ key.environment = fE

filteredKeys ==
    SelectSeq(keys, LAMBDA key : FilterMatch(key, filterStatus, filterEnvironment))

\* a row of the table with its buttons: rows are drawn only when not loading
Rendered(id) == ~loading /\ Has(filteredKeys, id)

\* the table body shows the row "No API keys found"
EmptyState == ~loading /\ Len(filteredKeys) = 0

\* new URLSearchParams() with the appends of fetchKeys
FetchParams(fS, fE) ==
    [k \in (IF fS # "all" THEN {"status"} ELSE {})
           \cup (IF fE # "all" THEN {"environment"} ELSE {}) |->
        IF k = "status" THEN fS ELSE fE]

\* the request fetchKeys issues from a closure that captured (fS, fE)
ListRequest(fS, fE) == Request("GET", NoId, FetchParams(fS, fE), NoBody)

\* faulty variant: the severity argument is dropped
showToastNotification_NoSeverity(message, type) ==
    /\ toastMessage' = message
    /\ toastType' = "success"
    /\ showToast' = TRUE
    /\ timers' = timers + 1

\* showToastNotification(message, type)
showToastNotification(message, type) ==
    /\ toastMessage' = message
    /\ toastType' = type
    /\ showToast' = TRUE
    /\ timers' = timers + 1

\* faulty variant: the form is hidden with the draft left in it
closeModal_KeepsDraft ==
    /\ isModalOpen' = FALSE
    /\ UNCHANGED <<newName, newScopes, newEnvironment>>

\* closeModal()
closeModal ==
    /\ isModalOpen' = FALSE
    /\ newName' = ""
    /\ newScopes' = <<"read">>
    /\ newEnvironment' = "development"

\* an async handler is invoked
UserAction ==
    /\ opCount < MaxOps
    /\ opCount' = opCount + 1
    /\ UNCHANGED inputCount

\* a synchronous input: a field is typed or picked, a button only sets state
UserInput ==
    /\ inputCount < MaxInputs
    /\ inputCount' = inputCount + 1
    /\ UNCHANGED opCount

\* a handler invocation that has issued its first request
Start(op, req) ==
    tasks' = tasks \cup {Task(opCount + 1, op, req, filterStatus, filterEnvironment)}

(* ---- filters: setFilterStatus / setFilterEnvironment and the effect ---- *)

\* a filter changes: the effect on [filterStatus, filterEnvironment] runs
\* fetchKeys of the new render
setFilterStatus(v) ==
    /\ UserAction
    /\ v # filterStatus
    /\ filterStatus' = v
    /\ loading' = TRUE
    /\ tasks' = tasks \cup
          {Task(opCount + 1, "fetch", ListRequest(v, filterEnvironment),
                v, filterEnvironment)}
    /\ UNCHANGED <<serverVars, keys, error, formVars, editVars, rowVars,
                   toastVars, filterEnvironment>>

setFilterEnvironment(v) ==
    /\ UserAction
    /\ v # filterEnvironment
    /\ filterEnvironment' = v
    /\ loading' = TRUE
    /\ tasks' = tasks \cup
          {Task(opCount + 1, "fetch", ListRequest(filterStatus, v),
                filterStatus, v)}
    /\ UNCHANGED <<serverVars, keys, error, formVars, editVars, rowVars,
                   toastVars, filterStatus>>

(* ---- creation form ---- *)

openModal ==
    /\ UserInput
    /\ isModalOpen' = TRUE
    /\ UNCHANGED <<serverVars, tasks, listVars, newName, newScopes,
                   newEnvironment, editVars, rowVars, toastVars, filterVars>>

\* Cancel button of the form
cancelModal ==
    /\ UserInput
    /\ isModalOpen
    /\ closeModal
    /\ UNCHANGED <<serverVars, tasks, listVars, editVars, rowVars, toastVars,
                   filterVars>>

setNewName(v) ==
    /\ UserInput
    /\ isModalOpen
    /\ newName' = v
    /\ UNCHANGED <<serverVars, tasks, listVars, newScopes, newEnvironment,
                   isModalOpen, editVars, rowVars, toastVars, filterVars>>

setNewEnvironment(v) ==
    /\ UserInput
    /\ isModalOpen
    /\ newEnvironment' = v
    /\ UNCHANGED <<serverVars, tasks, listVars, newName, newScopes,
                   isModalOpen, editVars, rowVars, toastVars, filterVars>>

toggleNewScope(scope) ==
    /\ UserInput
    /\ isModalOpen
    /\ newScopes' = toggleScope(newScopes, scope)
    /\ UNCHANGED <<serverVars, tasks, listVars, newName, newEnvironment,
                   isModalOpen, editVars, rowVars, toastVars, filterVars>>

\* the body createKey posts
NewKey(rand) ==
    [name |-> Trim(newName),
     secret |-> generateSecret(newEnvironment, rand),
     scopes |-> IF Len(newScopes) > 0 THEN newScopes ELSE <<"read">>,
     environment |-> newEnvironment]

\* createKey, up to its first await
createKey(rand) ==
    /\ UserAction
    /\ isModalOpen
    /\ Trim(newName) # ""
    /\ nextId + Cardinality({t \in tasks : t.req.method = "POST"}) <= MaxId
    /\ Start("create", Request("POST", NoId, NoParams, NewKey(rand)))
    /\ UNCHANGED <<serverVars, viewVars>>

(* ---- row editing ---- *)

startEdit(id) ==
    /\ UserInput
    /\ Rendered(id)
    /\ editingId # id
    /\ editingId' = id
    /\ editDraft' = [name |-> Find(keys, id).name,
                     scopes |-> Find(keys, id).scopes,
                     environment |-> Find(keys, id).environment]
    /\ UNCHANGED <<serverVars, tasks, listVars, formVars, rowVars, toastVars,
                   filterVars>>

\* the inputs of the row in edit mode
Editing == editingId # NoId /\ Rendered(editingId)

setDraftName(v) ==
    /\ UserInput
    /\ Editing
    /\ editDraft' = [editDraft EXCEPT !.name = v]
    /\ UNCHANGED <<serverVars, tasks, listVars, formVars, editingId, rowVars,
                   toastVars, filterVars>>

setDraftEnvironment(v) ==
    /\ UserInput
    /\ Editing
    /\ editDraft' = [editDraft EXCEPT !.environment = v]
    /\ UNCHANGED <<serverVars, tasks, listVars, formVars, editingId, rowVars,
                   toastVars, filterVars>>

toggleDraftScope(scope) ==
    /\ UserInput
    /\ Editing
    /\ editDraft' = [editDraft EXCEPT !.scopes = toggleScope(@, scope)]
    /\ UNCHANGED <<serverVars, tasks, listVars, formVars, editingId, rowVars,
                   toastVars, filterVars>>

\* faulty variant: Cancel writes the draft into the listed record
cancelEdit_AppliesDraft ==
    /\ Editing
    /\ editingId' = NoId
    /\ keys' = [i \in DOMAIN keys |->
                  IF keys[i].id = editingId
                  THEN [keys[i] EXCEPT !.name = editDraft.name,
                                       !.scopes = editDraft.scopes,
                                       !.environment = editDraft.environment]
                  ELSE keys[i]]
    /\ UNCHANGED <<serverVars, tasks, opCount, inputCount, loading, error,
                   formVars, editDraft, rowVars, toastVars, filterVars>>

\* Cancel button of the row: setEditingId(null).  It takes nothing from the
\* budget of inputs: each Cancel needs an earlier startEdit, which does.
cancelEdit ==
    /\ Editing
    /\ editingId' = NoId
    /\ UNCHANGED <<serverVars, tasks, opCount, inputCount, listVars, formVars,
                   editDraft, rowVars, toastVars, filterVars>>

\* faulty variant: Save also regenerates the secret
EditPatch_Regenerates ==
    [name |-> Trim(editDraft.name),
     secret |-> generateSecret(editDraft.environment, "k3j9x0"),
     scopes |-> editDraft.scopes,
     environment |-> editDraft.environment]

\* the body saveEdit patches
EditPatch ==
    [name |-> Trim(editDraft.name),
     scopes |-> editDraft.scopes,
     environment |-> editDraft.environment]

\* saveEdit, up to its first await
saveEdit ==
    /\ UserAction
    /\ Editing
    /\ Trim(editDraft.name) # ""
    /\ Start("save", Request("PATCH", editingId, NoParams, EditPatch))
    /\ UNCHANGED <<serverVars, viewVars>>

\* saveEdit returning at `if (!editingId || !editDraft.name.trim()) return`:
\* the Save button exists only in the row being edited, so the draft name
\* is what can be empty
saveEditReturns ==
    /\ UserAction
    /\ Editing
    /\ Trim(editDraft.name) = ""
    /\ UNCHANGED <<serverVars, tasks, viewVars>>

(* ---- rotate, toggle status, delete ---- *)

\* faulty variant: the patch also re-activates the key
RotatePatch_Activates(key, rand) ==
    [secret |-> generateSecret(key.environment, rand), last_used |-> <<now>>,
     status |-> "active"]

\* the body rotateKey patches for the key it found in keys
RotatePatch(key, rand) ==
    [secret |-> generateSecret(key.environment, rand), last_used |-> <<now>>]

rotateKey(id, rand) ==
    /\ UserAction
    /\ Has(keys, id)
    /\ Start("rotate", Request("PATCH", id, NoParams, RotatePatch(Find(keys, id), rand)))
    /\ UNCHANGED <<serverVars, viewVars>>

\* faulty variant: the patch also stamps last_used, as rotateKey's does
TogglePatch_Stamped(key) ==
    [status |-> IF key.status = "active" THEN "revoked" ELSE "active",
     last_used |-> <<now>>]

\* the body toggleStatus patches for the key it found in keys
TogglePatch(key) ==
    [status |-> IF key.status = "active" THEN "revoked" ELSE "active"]

toggleStatus(id) ==
    /\ UserAction
    /\ Has(keys, id)
    /\ Start("toggle", Request("PATCH", id, NoParams, TogglePatch(Find(keys, id))))
    /\ UNCHANGED <<serverVars, viewVars>>

\* deleteKey with the confirm() answered yes
deleteKey(id) ==
    /\ UserAction
    /\ Rendered(id)
    /\ editingId # id
    /\ Start("delete", Request("DELETE", id, NoParams, NoBody))
    /\ UNCHANGED <<serverVars, viewVars>>

\* faulty variant: the request is sent whatever confirm() answers
declineDelete_Sends(id) ==
    /\ UserInput
    /\ Rendered(id)
    /\ editingId # id
    /\ Start("delete", Request("DELETE", id, NoParams, NoBody))
    /\ UNCHANGED <<serverVars, viewVars>>

\* deleteKey with the confirm() answered no
declineDelete(id) ==
    /\ UserInput
    /\ Rendered(id)
    /\ editingId # id
    /\ UNCHANGED <<serverVars, tasks, viewVars>>

(* ---- reveal and copy ---- *)

\* formatSecret(secret, revealed); an asterisk stands for a bullet
formatSecret(secret, revealed) ==
    IF revealed THEN secret
    ELSE IF Len(secret) <= 10 THEN "**********"
    ELSE SubSeq(secret, 1, 10) \o "**********"
         \o SubSeq(secret, Len(secret) - 3, Len(secret))

\* the text of the Key column of a row
ShownSecret(id) == formatSecret(Find(keys, id).secret, id \in revealedSecrets)

\* Reveal/Hide button of a row
toggleRevealSecret(id) ==
    /\ UserInput
    /\ Rendered(id)
    /\ editingId # id
    /\ revealedSecrets' = IF id \in revealedSecrets
                           THEN revealedSecrets \ {id}
                           ELSE revealedSecrets \cup {id}
    /\ UNCHANGED <<serverVars, tasks, listVars, formVars, editVars, copiedId,
                   clipboard, toastVars, filterVars>>

\* faulty variant: the text of the Key column is what is copied
copySecret_CopiesShown(id, written) ==
    /\ UserInput
    /\ Rendered(id)
    /\ editingId # id
    /\ IF written
       THEN /\ clipboard' = ShownSecret(id)
            /\ copiedId' = id
            /\ showToastNotification("Copied API Key to clipboard", "success")
       ELSE /\ UNCHANGED <<clipboard, copiedId>>
            /\ showToastNotification("Failed to copy API key", "error")
    /\ UNCHANGED <<serverVars, tasks, listVars, formVars, editVars,
                   revealedSecrets, filterVars>>

\* Copy button of a row: copySecret(key.secret, key.id); written tells
\* whether navigator.clipboard.writeText resolved or rejected
copySecret(id, written) ==
    /\ UserInput
    /\ Rendered(id)
    /\ editingId # id
    /\ IF written
       THEN /\ clipboard' = Find(keys, id).secret
            /\ copiedId' = id
            /\ showToastNotification("Copied API Key to clipboard", "success")
       ELSE /\ UNCHANGED <<clipboard, copiedId>>
            /\ showToastNotification("Failed to copy API key", "error")
    /\ UNCHANGED <<serverVars, tasks, listVars, formVars, editVars,
                   revealedSecrets, filterVars>>

(* ---- notifications ---- *)

\* a setTimeout callback of showToastNotification runs
TimerFires ==
    /\ timers > 0
    /\ timers' = timers - 1
    /\ showToast' = FALSE
    /\ UNCHANGED <<serverVars, tasks, opCount, inputCount, listVars, formVars, editVars,
                   rowVars, toastMessage, toastType, filterVars>>

\* close button of the toast
closeToast ==
    /\ UserInput
    /\ showToast
    /\ showToast' = FALSE
    /\ UNCHANGED <<serverVars, tasks, listVars, formVars, editVars, rowVars,
                   toastMessage, toastType, timers, filterVars>>

(* ---- a handler resumes after its await ---- *)

Mutations == {"create", "save", "rotate", "toggle", "delete"}

\* faulty variant: a failed create dismisses the form like a successful one
MutationFailed_ClosesForm(t) ==
    /\ t \in tasks /\ t.stage = "resp" /\ t.op \in Mutations
    /\ t.req.method # "GET"
    /\ ~Ok(t)
    /\ tasks' = tasks \ {t}
    /\ IF t.op = "create"
       THEN /\ closeModal
            /\ showToastNotification("Failed to create API key. Please try again.", "error")
       ELSE UNCHANGED <<formVars, toastVars>>
    /\ UNCHANGED <<serverVars, opCount, inputCount, listVars, editVars, rowVars,
                   filterVars>>

\* faulty variant: a failed save leaves edit mode like a successful one
MutationFailed_ExitsEdit(t) ==
    /\ t \in tasks /\ t.stage = "resp" /\ t.op \in Mutations
    /\ t.req.method # "GET"
    /\ ~Ok(t)
    /\ tasks' = tasks \ {t}
    /\ IF t.op = "save"
       THEN /\ editingId' = NoId
            /\ UNCHANGED editDraft
            /\ showToastNotification("Failed to update API key. Please try again.", "error")
       ELSE UNCHANGED <<editVars, toastVars>>
    /\ UNCHANGED <<serverVars, opCount, inputCount, listVars, formVars, rowVars,
                   filterVars>>

\* the mutation request failed: the catch block of the handler.  rotateKey
\* and toggleStatus call alert(), which changes no state.
MutationFailed(t) ==
    /\ t \in tasks /\ t.stage = "resp" /\ t.op \in Mutations
    /\ t.req.method # "GET"
    /\ ~Ok(t)
    /\ tasks' = tasks \ {t}
    /\ CASE t.op = "create" ->
              showToastNotification("Failed to create API key. Please try again.", "error")
         [] t.op = "save" ->
              showToastNotification("Failed to update API key. Please try again.", "error")
         [] t.op = "delete" ->
              showToastNotification("Failed to delete API key. Please try again.", "error")
         [] OTHER -> UNCHANGED toastVars
    /\ UNCHANGED <<serverVars, opCount, inputCount, listVars, formVars, editVars, rowVars,
                   filterVars>>

\* the mutation request succeeded: the handler calls fetchKeys() of its own
\* render, which sets loading and requests the list with the captured filters
MutationOk(t) ==
    /\ t \in tasks /\ t.stage = "resp" /\ t.op \in Mutations
    /\ t.req.method # "GET"
    /\ Ok(t)
    /\ loading' = TRUE
    /\ tasks' = Replace(t, [t EXCEPT !.req = ListRequest(t.fS, t.fE),
                                     !.stage = "req", !.status = 0, !.data = <<>>])
    /\ UNCHANGED <<serverVars, opCount, inputCount, keys, error, formVars, editVars,
                   rowVars, toastVars, filterVars>>

\* faulty variant: the response is merged into the list instead of replacing it
fetchKeysResumes_Merge(t) ==
    /\ loading' = FALSE
    /\ IF Ok(t)
       THEN /\ keys' = [i \in DOMAIN keys |->
                          IF Has(t.data, keys[i].id)
                          THEN Find(t.data, keys[i].id) ELSE keys[i]]
                       \o SelectSeq(t.data, LAMBDA k : ~Has(keys, k.id))
            /\ error' = "null"
       ELSE keys' = keys /\ error' = "Failed to fetch API keys"

\* faulty variant: a response is dropped when a later request is in flight
fetchKeysResumes_Sequenced(t) ==
    /\ loading' = FALSE
    /\ IF \E u \in tasks : u.n > t.n
       THEN UNCHANGED <<keys, error>>
       ELSE IF Ok(t)
            THEN keys' = t.data /\ error' = "null"
            ELSE keys' = keys /\ error' = "Failed to fetch API keys"

\* fetchKeys after its await: setKeys/setError, finally setLoading(false)
fetchKeysResumes(t) ==
    /\ loading' = FALSE
    /\ IF Ok(t)
       THEN keys' = t.data /\ error' = "null"
       ELSE keys' = keys /\ error' = "Failed to fetch API keys"

\* the list response of the mount/filter effect arrives
FetchDone(t) ==
    /\ t \in tasks /\ t.stage = "resp" /\ t.op = "fetch"
    /\ fetchKeysResumes(t)
    /\ tasks' = tasks \ {t}
    /\ UNCHANGED <<serverVars, opCount, inputCount, formVars, editVars, rowVars, toastVars,
                   filterVars>>

\* the list response of a mutation's refresh arrives: fetchKeys returns and
\* the handler runs to its end
RefreshDone(t) ==
    /\ t \in tasks /\ t.stage = "resp" /\ t.op \in Mutations
    /\ t.req.method = "GET"
    /\ fetchKeysResumes(t)
    /\ tasks' = tasks \ {t}
    /\ CASE t.op = "create" ->
              /\ closeModal
              /\ showToastNotification("API key created successfully!", "success")
              /\ UNCHANGED editVars
         [] t.op = "save" ->
              /\ editingId' = NoId
              /\ showToastNotification("API key updated successfully!", "success")
              /\ UNCHANGED <<formVars, editDraft>>
         [] t.op = "delete" ->
              /\ showToastNotification("API key deleted successfully!", "error")
              /\ UNCHANGED <<formVars, editVars>>
         [] OTHER -> UNCHANGED <<formVars, editVars, toastVars>>
    /\ UNCHANGED <<serverVars, opCount, inputCount, rowVars, filterVars>>

----------------------------------------------------------------------------
(* The dashboard after mount: the effect has called fetchKeys *)

Init ==
    /\ InitServer
    /\ InitView
    /\ tasks = {Task(0, "fetch", ListRequest("all", "all"), "all", "all")}
    /\ opCount = 0
    /\ inputCount = 0

Next ==
    \/ \E v \in {"all", "active", "revoked"} : setFilterStatus(v)
    \/ \E v \in {"all"} \cup Environments : setFilterEnvironment(v)
    \/ openModal
    \/ cancelModal
    \/ \E v \in NameInputs : setNewName(v)
    \/ \E v \in Environments : setNewEnvironment(v)
    \/ \E sc \in ScopeInputs : toggleNewScope(sc)
    \/ \E rand \in RandomSuffixes : createKey(rand)
    \/ \E id \in 1..MaxId : startEdit(id)
    \/ \E v \in NameInputs : setDraftName(v)
    \/ \E v \in Environments : setDraftEnvironment(v)
    \/ \E sc \in ScopeInputs : toggleDraftScope(sc)
    \/ cancelEdit
    \/ saveEdit
    \/ saveEditReturns
    \/ \E id \in 1..MaxId, rand \in RandomSuffixes : rotateKey(id, rand)
    \/ \E id \in 1..MaxId : toggleStatus(id)
    \/ \E id \in 1..MaxId : deleteKey(id)
    \/ \E id \in 1..MaxId : declineDelete(id)
    \/ \E id \in 1..MaxId : toggleRevealSecret(id)
    \/ \E id \in 1..MaxId, written \in BOOLEAN : copySecret(id, written)
    \/ TimerFires
    \/ closeToast
    \/ \E t \in tasks : ServeGet(t)
    \/ \E t \in tasks : ServePost(t)
    \/ \E t \in tasks : ServePatch(t)
    \/ \E t \in tasks : ServeDelete(t)
    \/ \E t \in tasks : ServeFail(t)
    \/ \E t \in tasks : MutationFailed(t)
    \/ \E t \in tasks : MutationOk(t)
    \/ \E t \in tasks : FetchDone(t)
    \/ \E t \in tasks : RefreshDone(t)
    \/ Tick

Spec == Init /\ [][Next]_vars

----------------------------------------------------------------------------
(* Specifications of handler groups.  Each keeps every step of the server, *)
(* of the resuming handlers, of the timers and of the clock, and restricts *)
(* the user to one group of handlers; each behaviour of one of them is a   *)
(* behaviour of Spec.                                                       *)

\* the creation form and createKey
NextCreate ==
    \/ openModal
    \/ cancelModal
    \/ \E v \in NameInputs : setNewName(v)
    \/ \E v \in Environments : setNewEnvironment(v)
    \/ \E sc \in ScopeInputs : toggleNewScope(sc)
    \/ \E rand \in RandomSuffixes : createKey(rand)
    \/ \E t \in tasks : ServeGet(t)
    \/ \E t \in tasks : ServePost(t)
    \/ \E t \in tasks : ServeFail(t)
    \/ \E t \in tasks : MutationFailed(t)
    \/ \E t \in tasks : MutationOk(t)
    \/ \E t \in tasks : FetchDone(t)
    \/ \E t \in tasks : RefreshDone(t)
    \/ TimerFires
    \/ Tick

SpecCreate == Init /\ [][NextCreate]_vars

\* toggleStatus and deleteKey on the rows
NextRows ==
    \/ \E id \in 1..MaxId : toggleStatus(id)
    \/ \E id \in 1..MaxId : deleteKey(id)
    \/ \E t \in tasks : ServeGet(t)
    \/ \E t \in tasks : ServePatch(t)
    \/ \E t \in tasks : ServeDelete(t)
    \/ \E t \in tasks : ServeFail(t)
    \/ \E t \in tasks : MutationFailed(t)
    \/ \E t \in tasks : MutationOk(t)
    \/ \E t \in tasks : FetchDone(t)
    \/ \E t \in tasks : RefreshDone(t)
    \/ TimerFires
    \/ Tick

SpecRows == Init /\ [][NextRows]_vars

\* the row in edit mode: startEdit, the draft's name and scopes, Cancel and
\* saveEdit, at one instant of the clock
NextEdit ==
    \/ \E id \in 1..MaxId : startEdit(id)
    \/ \E v \in NameInputs : setDraftName(v)
    \/ \E sc \in ScopeInputs : toggleDraftScope(sc)
    \/ cancelEdit
    \/ saveEdit
    \/ saveEditReturns
    \/ \E t \in tasks : ServeGet(t)
    \/ \E t \in tasks : ServePatch(t)
    \/ \E t \in tasks : ServeFail(t)
    \/ \E t \in tasks : MutationFailed(t)
    \/ \E t \in tasks : MutationOk(t)
    \/ \E t \in tasks : FetchDone(t)
    \/ \E t \in tasks : RefreshDone(t)

SpecEdit == Init /\ [][NextEdit]_vars

\* both forms: the creation form with createKey and the row in edit mode
\* with saveEdit
NextForms ==
    \/ openModal
    \/ \E v \in NameInputs : setNewName(v)
    \/ \E rand \in RandomSuffixes : createKey(rand)
    \/ \E id \in 1..MaxId : startEdit(id)
    \/ \E v \in NameInputs : setDraftName(v)
    \/ saveEdit
    \/ saveEditReturns
    \/ \E t \in tasks : ServeGet(t)
    \/ \E t \in tasks : ServePost(t)
    \/ \E t \in tasks : ServePatch(t)
    \/ \E t \in tasks : ServeFail(t)
    \/ \E t \in tasks : MutationFailed(t)
    \/ \E t \in tasks : MutationOk(t)
    \/ \E t \in tasks : FetchDone(t)
    \/ \E t \in tasks : RefreshDone(t)

SpecForms == Init /\ [][NextForms]_vars

\* rotateKey on the listed records, active or revoked by toggleStatus, at
\* one instant of the clock
NextRotate ==
    \/ \E id \in 1..MaxId, rand \in RandomSuffixes : rotateKey(id, rand)
    \/ \E id \in 1..MaxId : toggleStatus(id)
    \/ \E t \in tasks : ServeGet(t)
    \/ \E t \in tasks : ServePatch(t)
    \/ \E t \in tasks : ServeFail(t)
    \/ \E t \in tasks : MutationFailed(t)
    \/ \E t \in tasks : MutationOk(t)
    \/ \E t \in tasks : FetchDone(t)
    \/ \E t \in tasks : RefreshDone(t)

SpecRotate == Init /\ [][NextRotate]_vars

\* deleteKey with either answer to its confirm()
NextDelete ==
    \/ \E id \in 1..MaxId : deleteKey(id)
    \/ \E id \in 1..MaxId : declineDelete(id)
    \/ \E t \in tasks : ServeGet(t)
    \/ \E t \in tasks : ServeDelete(t)
    \/ \E t \in tasks : ServeFail(t)
    \/ \E t \in tasks : MutationFailed(t)
    \/ \E t \in tasks : MutationOk(t)
    \/ \E t \in tasks : FetchDone(t)
    \/ \E t \in tasks : RefreshDone(t)
    \/ TimerFires
    \/ Tick

SpecDelete == Init /\ [][NextDelete]_vars

\* the Reveal and Copy buttons of the rows, which a row in edit mode lacks
NextSecrets ==
    \/ \E id \in 1..MaxId : startEdit(id)
    \/ cancelEdit
    \/ \E id \in 1..MaxId : toggleRevealSecret(id)
    \/ \E id \in 1..MaxId, written \in BOOLEAN : copySecret(id, written)
    \/ \E t \in tasks : ServeGet(t)
    \/ \E t \in tasks : ServeFail(t)
    \/ \E t \in tasks : FetchDone(t)
    \/ TimerFires
    \/ closeToast

SpecSecrets == Init /\ [][NextSecrets]_vars

----------------------------------------------------------------------------
(* The secret column under every operation of a row, one operation at a   *)
(* time: a button is pressed when no request is in flight                 *)

NextImmutable ==
    \/ tasks = {} /\ \E id \in 1..MaxId : startEdit(id)
    \/ tasks = {} /\ \E v \in NameInputs : setDraftName(v)
    \/ tasks = {} /\ saveEdit
    \/ tasks = {} /\ saveEditReturns
    \/ tasks = {} /\ \E id \in 1..MaxId : toggleStatus(id)
    \/ tasks = {} /\ \E id \in 1..MaxId : \E rand \in RandomSuffixes : rotateKey(id, rand)
    \/ tasks = {} /\ \E id \in 1..MaxId : toggleRevealSecret(id)
    \/ tasks = {} /\ \E id \in 1..MaxId : \E written \in BOOLEAN : copySecret(id, written)
    \/ \E t \in tasks : ServeGet(t)
    \/ \E t \in tasks : ServePatch(t)
    \/ \E t \in tasks : MutationOk(t)
    \/ \E t \in tasks : FetchDone(t)
    \/ \E t \in tasks : RefreshDone(t)

SpecImmutable == Init /\ [][NextImmutable]_vars

----------------------------------------------------------------------------
(* The filters, with a mutation of a row *)

NextFilters ==
    \/ \E v \in {"all", "active", "revoked"} : setFilterStatus(v)
    \/ \E v \in {"all"} \cup Environments : setFilterEnvironment(v)
    \/ \E id \in 1..MaxId : toggleStatus(id)
    \/ \E t \in tasks : ServeGet(t)
    \/ \E t \in tasks : ServePatch(t)
    \/ \E t \in tasks : ServeFail(t)
    \/ \E t \in tasks : MutationFailed(t)
    \/ \E t \in tasks : MutationOk(t)
    \/ \E t \in tasks : FetchDone(t)
    \/ \E t \in tasks : RefreshDone(t)

SpecFilters == Init /\ [][NextFilters]_vars

----------------------------------------------------------------------------
(* Rotation of a record whose environment is being edited *)

NextTag ==
    \/ \E id \in 1..MaxId : startEdit(id)
    \/ \E v \in Environments : setDraftEnvironment(v)
    \/ saveEdit
    \/ \E id \in 1..MaxId : \E rand \in RandomSuffixes : rotateKey(id, rand)
    \/ \E t \in tasks : ServeGet(t)
    \/ \E t \in tasks : ServePatch(t)
    \/ \E t \in tasks : ServeFail(t)
    \/ \E t \in tasks : MutationFailed(t)
    \/ \E t \in tasks : MutationOk(t)
    \/ \E t \in tasks : FetchDone(t)
    \/ \E t \in tasks : RefreshDone(t)

SpecTag == Init /\ [][NextTag]_vars

----------------------------------------------------------------------------
(* The routes called directly, by any HTTP client: requests drawn from     *)
(* bounded sets, one exchange at a time.                                    *)

\* every function from a subset of the keys to the values offered for each key
RECURSIVE Choices(_, _)
Choices(ks, vals) ==
    IF ks = {} THEN {<<>>}
    ELSE LET k == CHOOSE x \in ks : TRUE
             rest == Choices(ks \ {k}, vals) IN
         rest \cup { [x \in DOMAIN b \cup {k} |-> IF x = k THEN v ELSE b[x]] :
                     b \in rest, v \in vals[k] }

ApiParams ==
    Choices({"status", "environment"},
            [status |-> {"", "all", "active", "revoked"},
             environment |-> {"all", "production", "development"}])

ApiPostBodies ==
    Choices({"name", "secret", "scopes", "environment", "status", "last_used"},
            [name |-> {"", "Mobile key"},
             secret |-> {"", "groot_dev_abc123", "groot_dev_xx330qwe992155aa"},
             scopes |-> {<<>>, <<"read">>},
             environment |-> {"", "development", "testing"},
             status |-> {"revoked"},
             last_used |-> {<<6>>}])

ApiPatchBodies ==
    { [status |-> "revoked"], [status |-> "active"], [status |-> "disabled"],
      [secret |-> "groot_dev_abc123"], [secret |-> "groot_live_43fj9dhwq22n0x9p"],
      [secret |-> "groot_dev_abc123", last_used |-> <<now>>],
      [name |-> "Renamed", scopes |-> <<>>, environment |-> "staging"],
      [environment |-> "testing"] }

ApiRequests ==
    { Request("GET", NoId, p, NoBody) : p \in ApiParams }
    \cup { Request("POST", NoId, NoParams, b) : b \in ApiPostBodies }
    \cup { Request("PATCH", i, NoParams, b) : i \in 1..MaxId, b \in ApiPatchBodies }
    \cup { Request("DELETE", i, NoParams, NoBody) : i \in 1..MaxId }

ApiCall ==
    /\ tasks = {}
    /\ opCount < MaxOps
    /\ \E req \in ApiRequests :
          /\ req.method = "POST" => nextId <= MaxId
          /\ tasks' = {Task(opCount + 1, "api", req, "all", "all")}
    /\ opCount' = opCount + 1
    /\ UNCHANGED <<serverVars, inputCount, viewVars>>

ApiDone ==
    /\ \E t \in tasks :
          /\ t.op = "api" /\ t.stage = "resp"
          /\ tasks' = tasks \ {t}
    /\ UNCHANGED <<serverVars, opCount, inputCount, viewVars>>

InitApi == InitServer /\ InitView /\ tasks = {} /\ opCount = 0 /\ inputCount = 0

NextApi ==
    \/ ApiCall
    \/ \E t \in tasks : ServeGet(t)
    \/ \E t \in tasks : ServePost(t)
    \/ \E t \in tasks : ServePatch(t)
    \/ \E t \in tasks : ServeDelete(t)
    \/ \E t \in tasks : ServeFail(t)
    \/ ApiDone
    \/ Tick

SpecApi == InitApi /\ [][NextApi]_vars

----------------------------------------------------------------------------
(* Claims about the routes, checked under SpecApi *)

\* the exchange t of this state is answered as u by this step
Served(t, u) ==
    /\ t \in tasks /\ u \in tasks'
    /\ t.n = u.n /\ t.stage = "req" /\ u.stage = "resp"

Elems(seq) == {seq[i] : i \in DOMAIN seq}

\* a query parameter that constrains its dimension: given, and not "all"
Constrains(params, k) ==
    k \in DOMAIN params /\ params[k] \notin {"", "all"}

Matching(rows, params) ==
    { r \in rows :
        /\ Constrains(params, "status") => r.status = params["status"]
        /\ Constrains(params, "environment") => r.environment = params["environment"] }

\* C1: GET /keys returns exactly the records whose status equals the status
\* parameter and whose environment equals the environment parameter, each
\* dimension being disabled when its parameter is absent (or given no value)
\* or is "all", each record once, ordered by created_at descending.
C1_GetFiltersAndOrders ==
    [][\A t \in tasks : \A u \in tasks' :
          (Served(t, u) /\ t.req.method = "GET" /\ u.status = 200) =>
             /\ Elems(u.data) = Matching(store, t.req.params)
             /\ Len(u.data) = Cardinality(Matching(store, t.req.params))
             /\ \A i \in 1..(Len(u.data) - 1) :
                   u.data[i].created_at >= u.data[i + 1].created_at]_vars

\* a list for status=revoked that holds a record patched to revoked, and no
\* active record
C1_Witness ==
    \E t \in tasks :
        /\ t.stage = "resp" /\ t.req.method = "GET" /\ t.status = 200
        /\ "status" \in DOMAIN t.req.params /\ t.req.params["status"] = "revoked"
        /\ t.data # <<>>
        /\ \E r \in store : r.status = "active"

\* the request's field k is missing or empty (an empty list included)
MissingOrEmpty(body, k) ==
    \/ k \notin DOMAIN body
    \/ body[k] = (IF k = "scopes" THEN <<>> ELSE "")

\* C2 as stated: POST answers 400 and inserts nothing whenever any of name,
\* secret, scopes or environment is missing or empty, an empty scopes list
\* included.
C2_Original ==
    [][\A t \in tasks : \A u \in tasks' :
          (/\ Served(t, u) /\ t.req.method = "POST"
           /\ \E k \in {"name", "secret", "scopes", "environment"} :
                 MissingOrEmpty(t.req.body, k))
          => (u.status = 400 /\ store' = store)]_vars

\* C2 (amended): POST answers 400 and inserts nothing whenever name, secret or
\* environment is missing or empty or scopes is missing; a 400 leaves the
\* store unchanged.  An empty scopes list is not a reason for rejection.
C2_RejectsMissingFields ==
    [][\A t \in tasks : \A u \in tasks' :
          (Served(t, u) /\ t.req.method = "POST") =>
             /\ (\/ \E k \in {"name", "secret", "environment"} :
                       MissingOrEmpty(t.req.body, k)
                 \/ "scopes" \notin DOMAIN t.req.body)
                => u.status = 400
             /\ u.status = 400 => store' = store]_vars

\* a POST has been answered 400
C2_Witness ==
    \E t \in tasks :
        /\ t.stage = "resp" /\ t.req.method = "POST" /\ t.status = 400
        /\ "scopes" \notin DOMAIN t.req.body
        /\ store = SeedRows

\* C3: a POST answered 201 adds exactly one record, with status active,
\* last_used null and the body's name, secret, scopes and environment,
\* whatever else the body carries; the response returns that record.
C3_CreatedRecordDefaults ==
    [][\A t \in tasks : \A u \in tasks' :
          (Served(t, u) /\ t.req.method = "POST" /\ u.status = 201) =>
             \E r \in store' \ store :
                /\ store' = store \cup {r}
                /\ u.data = <<r>>
                /\ r.status = "active"
                /\ r.last_used = <<>>
                /\ r.name = t.req.body["name"]
                /\ r.secret = t.req.body["secret"]
                /\ r.scopes = t.req.body["scopes"]
                /\ r.environment = t.req.body["environment"]
                /\ r.id \notin Ids(store)]_vars

\* a 201 for a body that also carried status and last_used
C3_Witness ==
    \E t \in tasks :
        /\ t.stage = "resp" /\ t.req.method = "POST" /\ t.status = 201
        /\ {"status", "last_used"} \subseteq DOMAIN t.req.body
        /\ t.data[1].status = "active"

----------------------------------------------------------------------------
(* Claims about the table, checked under SpecApi *)

\* C4: in every reachable store state no two records have the same secret.
C4_SecretsUnique ==
    \A r1 \in store : \A r2 \in store :
        r1.id # r2.id => r1.secret # r2.secret

\* a write that would have duplicated a stored secret has been refused
C4_Witness ==
    \E t \in tasks :
        /\ t.stage = "resp" /\ t.status = 500
        /\ t.req.method \in {"POST", "PATCH"}
        /\ "secret" \in DOMAIN t.req.body
        /\ \E r \in store : r.id # t.req.id /\ r.secret = t.req.body["secret"]
        /\ Cardinality(store) > Cardinality(SeedRows)

\* C6: after every mutation updated_at >= created_at holds for every record,
\* and no mutation changes a record's created_at.
C6_Timestamps ==
    [][/\ \A r \in store' : r.updated_at >= r.created_at
       /\ \A r \in store : \A r2 \in store' :
             r.id = r2.id => r2.created_at = r.created_at]_vars

\* a record created after the seeding and then updated at a later instant
C6_Witness ==
    \E r \in store :
        /\ r.id \notin Ids(SeedRows)
        /\ r.updated_at > r.created_at

----------------------------------------------------------------------------
(* Claims about createKey, checked under SpecCreate *)

Secrets(rows) == {r.secret : r \in rows}

\* C5: a create whose secret is already stored is answered 500, changes and
\* adds no record, and is shown to the user as a failed create: the error
\* notification of createKey, the form left open, the list untouched.
C5_DuplicateCreateFails ==
    [][\A t \in tasks :
          /\ \A u \in tasks' :
                (/\ Served(t, u) /\ t.op = "create" /\ t.req.method = "POST"
                 /\ t.req.body["secret"] \in Secrets(store))
                => (u.status = 500 /\ store' = store)
          /\ (/\ t.op = "create" /\ t.req.method = "POST"
              /\ t.stage = "resp" /\ t.status = 500
              /\ t \notin tasks')
             => /\ showToast'
                /\ toastType' = "error"
                /\ toastMessage' = "Failed to create API key. Please try again."
                /\ keys' = keys
                /\ isModalOpen' = isModalOpen
                /\ store' = store]_vars

\* createKey's POST carried a stored secret and has been answered 500
C5_Witness ==
    \E t \in tasks :
        /\ t.op = "create" /\ t.req.method = "POST"
        /\ t.stage = "resp" /\ t.status = 500
        /\ t.req.body["secret"] \in Secrets(store)
        /\ store = SeedRows

----------------------------------------------------------------------------
(* Claims about toggleStatus, deleteKey and the refresh, checked under      *)
(* SpecRows                                                                  *)

\* the PATCH of toggle invocation t has been applied by the store
ToggleApplied(t) ==
    /\ t.op = "toggle"
    /\ \/ t.req.method = "PATCH" /\ t.stage = "resp" /\ Ok(t)
       \/ t.req.method = "GET"

SeedRow(id) == CHOOSE r \in SeedRows : r.id = id

\* C7 as stated: two toggles of one record, the second invoked before the
\* refresh of the first has replaced the list, leave the record with its
\* original status and every field but updated_at as it was.
C7_Original ==
    \A t1 \in tasks : \A t2 \in tasks :
        (/\ t1.n < t2.n /\ t1.id = t2.id
         /\ ToggleApplied(t1) /\ ToggleApplied(t2)
         /\ opCount = 2
         /\ t1.id \in Ids(store))
        => Row(store, t1.id) =
              [SeedRow(t1.id) EXCEPT !.updated_at = Row(store, t1.id).updated_at]

\* C8: toggleStatus on a record patches that record's id with the status
\* field alone, set to the opposite of the status the handler read; the
\* patch changes only that record's status and updated_at, no other record,
\* and every stored status is active or revoked.
C8_ToggleFrame ==
    [][/\ \A t \in tasks' \ tasks :
             (t.op = "toggle" /\ t.stage = "req" /\ t.req.method = "PATCH") =>
                /\ t.req.id = t.id
                /\ DOMAIN t.req.body = {"status"}
                /\ Has(keys, t.id)
                /\ t.req.body["status"] \in Statuses \ {Find(keys, t.id).status}
       /\ \A t \in tasks : \A u \in tasks' :
             (Served(t, u) /\ t.op = "toggle" /\ t.req.method = "PATCH") =>
                /\ \A r \in store : r.id # t.id => r \in store'
                /\ \A r2 \in store' : r2.id # t.id => r2 \in store
                /\ \A r \in store : \A r2 \in store' :
                      (r.id = t.id /\ r2.id = t.id) =>
                         r2 = [r EXCEPT !.status = r2.status,
                                        !.updated_at = r2.updated_at]
                /\ Ids(store') = Ids(store)
                /\ u.status = 200 =>
                      Row(store', t.id).status = t.req.body["status"]
       /\ \A r \in store' : r.status \in Statuses]_vars

\* a toggle has revoked one seed record at a later instant than the seeding
C8_Witness ==
    /\ \E t \in tasks :
          /\ t.op = "toggle" /\ t.req.method = "PATCH"
          /\ t.stage = "resp" /\ t.status = 200
          /\ t.data[1].status = "revoked"
          /\ t.data[1].updated_at > SeedTime
    /\ Cardinality({r \in store : r.status = "revoked"}) = 1

\* the step in which the handler awaiting t receives the list response
ListReceived(t) ==
    /\ t \in tasks /\ t \notin tasks'
    /\ t.stage = "resp" /\ t.req.method = "GET"

\* C9: a successful refresh replaces the whole in-memory list by the response
\* data, so once a successful delete has been refreshed the deleted id is
\* not in the list.
C9_RefreshReplaces ==
    [][\A t \in tasks :
          (ListReceived(t) /\ Ok(t)) =>
             /\ keys' = t.data
             /\ t.op = "delete" => ~Has(keys', t.id)]_vars

\* the refresh of a successful delete has been applied: the list has lost a
\* record it held
C9_Witness ==
    /\ toastMessage = "API key deleted successfully!"
    /\ error = "null"
    /\ Len(keys) = 2
    /\ Cardinality(store) = 2

\* the displayed rows, given a list and a filter selection
Displayed(list, fS, fE) == SelectSeq(list, LAMBDA key : FilterMatch(key, fS, fE))

\* C10 as stated: when a mutation's round trip and its refresh have both
\* succeeded (and nothing else is in flight), the displayed list is the
\* store's records matching the current filter selection, in list order.
C10_Original ==
    [][\A t \in tasks :
          (ListReceived(t) /\ Ok(t) /\ t.op \in Mutations /\ tasks' = {}) =>
             Displayed(keys', filterStatus', filterEnvironment') \in
                Orderings({r \in store' :
                             FilterMatch(r, filterStatus', filterEnvironment')})]_vars

----------------------------------------------------------------------------
(* Claims about the outcome of createKey, checked under SpecCreate *)

\* the handler op awaiting t learns in this step that its mutation request
\* succeeded, or that it failed
MutationSucceeds(t, op) ==
    /\ t \in tasks /\ t \notin tasks'
    /\ t.op = op /\ t.req.method # "GET" /\ t.stage = "resp" /\ Ok(t)

MutationFails(t, op) ==
    /\ t \in tasks /\ t \notin tasks'
    /\ t.op = op /\ t.req.method # "GET" /\ t.stage = "resp" /\ ~Ok(t)

\* the step of MutationSucceeds issues the list request of the handler's
\* closure and shows nothing yet
RefreshIssued(t) ==
    /\ \E u \in tasks' : /\ u.n = t.n /\ u.op = t.op /\ u.stage = "req"
                          /\ u.req = ListRequest(t.fS, t.fE)
    /\ Cardinality(tasks') = Cardinality(tasks)
    /\ loading'
    /\ toastVars' = toastVars

\* exactly one notification, with this message and severity, is shown
Notifies(message, type) ==
    /\ showToast'
    /\ toastMessage' = message
    /\ toastType' = type
    /\ timers' = timers + 1

\* C11: when createKey's POST has succeeded a refresh is performed, and when
\* the refresh has returned the form is closed, the creation draft is reset
\* (name empty, scopes [read], environment development) and exactly one
\* success notification is shown.
C11_CreateSuccess ==
    [][\A t \in tasks :
          /\ MutationSucceeds(t, "create") =>
                /\ RefreshIssued(t)
                /\ formVars' = formVars
          /\ (ListReceived(t) /\ t.op = "create") =>
                /\ isModalOpen' = FALSE
                /\ newName' = ""
                /\ newScopes' = <<"read">>
                /\ newEnvironment' = "development"
                /\ Notifies("API key created successfully!", "success")]_vars

\* a create has run to its end: the record is stored and listed, the form
\* is closed with its name cleared
C11_Witness ==
    /\ tasks = {}
    /\ toastMessage = "API key created successfully!" /\ toastType = "success"
    /\ ~isModalOpen /\ newName = ""
    /\ Cardinality(store) = 4 /\ Len(keys) = 4
    /\ \E r \in store : r.name = "Mobile key"

\* C12: when createKey's POST fails exactly one error notification is shown,
\* the form and the entered name, scopes and environment are as they were,
\* the in-memory list is unchanged and no refresh is issued.
C12_CreateFailure ==
    [][\A t \in tasks :
          MutationFails(t, "create") =>
             /\ Notifies("Failed to create API key. Please try again.", "error")
             /\ formVars' = formVars
             /\ listVars' = listVars
             /\ tasks' = tasks \ {t}
             /\ store' = store]_vars

\* a create has failed with the form open on the entered name
C12_Witness ==
    /\ tasks = {}
    /\ toastMessage = "Failed to create API key. Please try again."
    /\ toastType = "error" /\ showToast
    /\ isModalOpen /\ newName = " Mobile key "
    /\ store = SeedRows

----------------------------------------------------------------------------
(* Claims about the names sent by createKey and saveEdit, checked under    *)
(* SpecForms                                                                *)

\* non-empty, with no space at either end
Trimmed(str) ==
    /\ Len(str) > 0
    /\ SubSeq(str, 1, 1) # " "
    /\ SubSeq(str, Len(str), Len(str)) # " "

\* the step issues the first request of an invocation of handler op
Issues(t, op) ==
    /\ t \in tasks' /\ t.op = op
    /\ \A u \in tasks : u.n # t.n

\* C13: saveEdit invoked with a draft name that is empty after trimming sends
\* no request and leaves the row in edit mode with its draft, the
\* notification and the store as they were; every request saveEdit sends is
\* for the row being edited, and every name createKey or saveEdit sends is
\* trimmed and non-empty.
C13_EmptyNameIsNoOp ==
    [][/\ saveEditReturns =>
             /\ tasks' = tasks
             /\ editVars' = editVars
             /\ toastVars' = toastVars
             /\ store' = store
       /\ \A t \in tasks' :
             /\ Issues(t, "save") =>
                   /\ t.req.method = "PATCH"
                   /\ editingId # NoId /\ t.req.id = editingId
                   /\ Trimmed(t.req.body["name"])
             /\ Issues(t, "create") =>
                   /\ t.req.method = "POST"
                   /\ Trimmed(t.req.body["name"])
       /\ \A r \in store' \ store : Trimmed(r.name)]_vars

\* Save has been pressed on a row whose draft name is blank: nothing is in
\* flight, the row is still in edit mode, nothing was notified or stored
C13_Witness ==
    /\ opCount = 1 /\ tasks = {}
    /\ editingId # NoId /\ editDraft.name = "  "
    /\ toastMessage = "" /\ ~showToast
    /\ store = SeedRows

----------------------------------------------------------------------------
(* Claims about the row in edit mode, checked under SpecEdit *)

\* C14: when saveEdit's PATCH has succeeded a refresh is performed, and when
\* the refresh has returned edit mode is left and one success notification is
\* shown; when the PATCH fails edit mode and the draft are left as they
\* were, no refresh is issued, the list and the store are unchanged and one
\* error notification is shown.
C14_SaveOutcome ==
    [][\A t \in tasks :
          /\ MutationSucceeds(t, "save") =>
                /\ RefreshIssued(t)
                /\ editVars' = editVars
          /\ (ListReceived(t) /\ t.op = "save") =>
                /\ editingId' = NoId
                /\ Notifies("API key updated successfully!", "success")
          /\ MutationFails(t, "save") =>
                /\ editVars' = editVars
                /\ tasks' = tasks \ {t}
                /\ listVars' = listVars
                /\ store' = store
                /\ Notifies("Failed to update API key. Please try again.", "error")]_vars

\* a save has run to its end: the new name is stored and listed, and no row
\* is in edit mode
C14_Witness ==
    /\ tasks = {}
    /\ editingId = NoId
    /\ toastMessage = "API key updated successfully!" /\ toastType = "success"
    /\ \E r \in store : r.name = "Mobile key" /\ Has(keys, r.id)
                         /\ Find(keys, r.id).name = "Mobile key"

\* C15: Cancel on the row in edit mode leaves edit mode and issues no
\* request, with the store and the in-memory list unchanged; filling and
\* changing the draft never touches the list, which changes only when a list
\* response is received, so the row shows the record's name, scopes and
\* environment as they were before the edit.
C15_CancelDiscards ==
    [][/\ cancelEdit =>
             /\ editingId' = NoId
             /\ tasks' = tasks
             /\ store' = store
             /\ keys' = keys
             /\ toastVars' = toastVars
       /\ editDraft' # editDraft => (keys' = keys /\ store' = store /\ tasks' = tasks)
       /\ keys' # keys => \E t \in tasks : ListReceived(t)]_vars

\* a changed draft has been cancelled: no request was ever sent by a
\* handler, no row is in edit mode, and the list and the store hold the
\* original names
C15_Witness ==
    /\ opCount = 0 /\ tasks = {}
    /\ editingId = NoId
    /\ editDraft.name = " Mobile key "
    /\ Len(keys) = 3
    /\ \A i \in DOMAIN keys : keys[i] \in SeedRows
    /\ store = SeedRows

----------------------------------------------------------------------------
(* Claims about rotateKey, checked under SpecRotate *)

\* C16: rotateKey on a listed record patches that record's id with secret and
\* last_used alone, the secret generated for the environment the list shows
\* and last_used the time of the call; serving the patch leaves every other
\* record, and every field of the record but secret, last_used and
\* updated_at, unchanged, a 200 stores the patch's secret and last_used, and
\* a refresh follows the success.
C16_RotateFrame ==
    [][/\ \A t \in tasks' :
             Issues(t, "rotate") =>
                /\ t.req.method = "PATCH" /\ t.req.id = t.id
                /\ DOMAIN t.req.body = {"secret", "last_used"}
                /\ t.req.body["last_used"] = <<now>>
                /\ Has(keys, t.id)
                /\ \E rand \in RandomSuffixes :
                      t.req.body["secret"] =
                         generateSecret(Find(keys, t.id).environment, rand)
       /\ \A t \in tasks : \A u \in tasks' :
             (Served(t, u) /\ t.op = "rotate" /\ t.req.method = "PATCH") =>
                /\ Ids(store') = Ids(store)
                /\ \A r \in store : r.id # t.id => r \in store'
                /\ \A r \in store : \A r2 \in store' :
                      (r.id = t.id /\ r2.id = t.id) =>
                         r2 = [r EXCEPT !.secret = r2.secret,
                                        !.last_used = r2.last_used,
                                        !.updated_at = r2.updated_at]
                /\ u.status = 200 =>
                      /\ Row(store', t.id).secret = t.req.body["secret"]
                      /\ Row(store', t.id).last_used = t.req.body["last_used"]
       /\ \A t \in tasks : MutationSucceeds(t, "rotate") => RefreshIssued(t)]_vars

\* a rotate has replaced the secret of a revoked record and stamped its
\* last_used
C16_Witness ==
    \E t \in tasks :
        /\ t.op = "rotate" /\ t.req.method = "PATCH"
        /\ t.stage = "resp" /\ t.status = 200
        /\ t.data[1].secret # SeedRow(t.id).secret
        /\ t.data[1].last_used = <<SeedTime>>
        /\ SeedRow(t.id).last_used # <<SeedTime>>
        /\ t.data[1].status = "revoked"
        /\ t.data[1] \in store

----------------------------------------------------------------------------
(* Claims about deleteKey, checked under SpecDelete *)

\* C17: a DELETE request is issued only by a deleteKey whose confirm() was
\* accepted; a declined confirm() sends nothing and leaves the store, the
\* in-memory list and the notification as they were.
C17_DeleteNeedsConfirm ==
    [][/\ \A id \in 1..MaxId :
             declineDelete(id) =>
                /\ tasks' = tasks
                /\ store' = store
                /\ listVars' = listVars
                /\ toastVars' = toastVars
       /\ \A t \in tasks' :
             (t.req.method = "DELETE" /\ \A u \in tasks : u.n # t.n) =>
                /\ t.op = "delete"
                /\ deleteKey(t.req.id)]_vars

\* the confirm() was declined twice and nothing else has happened since the
\* list was shown
C17_Witness ==
    /\ inputCount = 2 /\ opCount = 0 /\ tasks = {}
    /\ store = SeedRows /\ Len(keys) = 3
    /\ ~showToast /\ toastMessage = ""

\* C18: when deleteKey's DELETE has succeeded a refresh is performed, and
\* when it has returned one notification of severity error is shown; when
\* the DELETE fails one error notification is shown, no refresh is issued
\* and the list is as it was; a DELETE that is not answered 2xx removes
\* nothing from the store.
C18_DeleteOutcome ==
    [][\A t \in tasks :
          /\ MutationSucceeds(t, "delete") => RefreshIssued(t)
          /\ (ListReceived(t) /\ t.op = "delete") =>
                Notifies("API key deleted successfully!", "error")
          /\ MutationFails(t, "delete") =>
                /\ Notifies("Failed to delete API key. Please try again.", "error")
                /\ tasks' = tasks \ {t}
                /\ listVars' = listVars
                /\ filterVars' = filterVars
                /\ store' = store
          /\ \A u \in tasks' :
                (Served(t, u) /\ t.req.method = "DELETE" /\ ~Ok(u)) => store' = store]_vars

\* one delete has removed a record and another delete has failed and been
\* reported, with the list still showing the three records
C18_Witness ==
    /\ toastMessage = "Failed to delete API key. Please try again."
    /\ toastType = "error" /\ showToast
    /\ Len(keys) = 3 /\ ~loading
    /\ Cardinality(store) = 2
    /\ \E t \in tasks : t.op = "delete" /\ t.req.method = "DELETE"
                         /\ t.stage = "resp" /\ t.status = 200

----------------------------------------------------------------------------
(* Claims about the notifications *)

\* the handler awaiting t runs to its end in this step: its mutation request
\* failed, or the refresh after its mutation has returned
HandlerEnds(t) ==
    /\ t \in tasks /\ t \notin tasks'
    /\ t.op \in Mutations /\ t.stage = "resp"
    /\ t.req.method = "GET" \/ ~Ok(t)

\* C19 as stated: every mutation that reached the routes (create, save,
\* rotate, toggle, delete) ends, succeeded or failed, with exactly one
\* notification shown, of severity success, error or info, and its
\* dismissal timer started.  Checked under SpecRotate.
C19_Original ==
    [][\A t \in tasks :
          HandlerEnds(t) =>
             /\ showToast'
             /\ toastType' \in {"success", "error", "info"}
             /\ toastMessage' # ""
             /\ timers' = timers + 1]_vars

\* C20 as stated (its safety part): the dismissal timer of an earlier
\* notification never hides a later one, so while the timer of the
\* notification on display is still pending, another timer that fires
\* leaves the notification on display.  Timers have one delay and fire in
\* the order they were started.  Checked under SpecDelete.
C20_Original ==
    [][(timers > 1 /\ timers' = timers - 1) => showToast' = showToast]_vars

----------------------------------------------------------------------------
(* Claims about the Copy button, checked under SpecSecrets *)

\* C21: copySecret writes the listed record's whole secret to the clipboard,
\* masked or revealed, and leaves the revealed set as it was; when the write
\* succeeds that record becomes the one marked as copied, whichever was
\* marked before, and when it fails the mark and the clipboard are
\* unchanged; either way exactly one notification is shown, success or
\* error.
C21_CopySecret ==
    [][\A id \in 1..MaxId : \A written \in BOOLEAN :
          copySecret(id, written) =>
             /\ revealedSecrets' = revealedSecrets
             /\ written =>
                   /\ clipboard' = Find(keys, id).secret
                   /\ clipboard' \in Secrets(store)
                   /\ copiedId' = id
                   /\ Notifies("Copied API Key to clipboard", "success")
             /\ ~written =>
                   /\ clipboard' = clipboard
                   /\ copiedId' = copiedId
                   /\ Notifies("Failed to copy API key", "error")]_vars

\* two presses of Copy, the last one on the masked staging record: its whole
\* secret is on the clipboard and it is the record marked
C21_Witness ==
    /\ inputCount = 2 /\ timers = 2
    /\ copiedId = 2
    /\ clipboard = "groot_test_8ddm112ay2l288de"
    /\ ShownSecret(2) # clipboard
    /\ toastMessage = "Copied API Key to clipboard" /\ toastType = "success"

----------------------------------------------------------------------------
(* Claims about the list request, its failure and its filters *)

\* C22 as stated: when a list response is a failure the error is set, the
\* in-memory list is kept, and the view does not show the empty-dataset row
\* as the outcome, the first fetch on mount included; when it is a success
\* with zero records the error is cleared and the empty-dataset row is shown.
\* Checked under SpecSecrets.
C22_Original ==
    [][\A t \in tasks :
          /\ (ListReceived(t) /\ ~Ok(t)) =>
                /\ error' # "null"
                /\ keys' = keys
                /\ ~EmptyState'
          /\ (ListReceived(t) /\ Ok(t) /\ t.data = <<>>) =>
                /\ error' = "null"
                /\ EmptyState']_vars

\* C23 as stated: every scopes value createKey and saveEdit send to the
\* store is non-empty, so no stored record has an empty scopes list.
\* Checked under SpecEdit.
C23_Original ==
    /\ \A t \in tasks :
          (t.op \in {"create", "save"} /\ t.req.method \in {"POST", "PATCH"}) =>
             t.req.body.scopes # <<>>
    /\ \A r \in store : r.scopes # <<>>

----------------------------------------------------------------------------
(* Claims about the secret column, checked under SpecImmutable *)

\* the step serves the PATCH that rotateKey issued for record id
RotateServed(id) ==
    \E t \in tasks : /\ t.op = "rotate" /\ t.id = id
                      /\ t.stage = "req" /\ t.req.method = "PATCH"
                      /\ t \notin tasks'

\* C24: the stored secret of a record changes only in the step that serves
\* a rotation of that record: saving an edit, toggling the status,
\* revealing, masking, copying and refreshing leave every stored secret as
\* it was, and every record keeps its id.
C24_SecretOnlyByRotate ==
    [][/\ Ids(store') = Ids(store)
       /\ \A r \in store :
             \/ RotateServed(r.id)
             \/ Row(store', r.id).secret = r.secret]_vars

\* an edit has been saved and refreshed and a status has been toggled: the
\* renamed record still has the secret it was seeded with
C24_Witness ==
    /\ opCount = 2 /\ tasks = {}
    /\ \E r \in store : /\ r.name = "Mobile key"
                        /\ r.secret = SeedRow(r.id).secret
    /\ \E r \in store : r.status = "revoked"
    /\ \E i \in DOMAIN keys : keys[i].name = "Mobile key"

----------------------------------------------------------------------------
(* Claims about the list requests, checked under SpecFilters *)

\* the list request u is issued in this step
ListIssued(u) ==
    /\ u \in tasks' /\ u \notin tasks
    /\ u.stage = "req" /\ u.req.method = "GET"

\* C25 as stated: a change of a filter and a successful mutation each issue
\* a list request, and every list request carries the filter selection that
\* is current when it is issued, "all" being sent as an omitted parameter,
\* also when a filter was changed while the mutation request was in flight.
C25_Original ==
    [][/\ filterVars' # filterVars => \E u \in tasks' : ListIssued(u)
       /\ \A t \in tasks : (MutationSucceeds(t, t.op) /\ t.op \in Mutations) =>
             \E u \in tasks' : ListIssued(u) /\ u.n = t.n
       /\ \A u \in tasks' :
             ListIssued(u) => u.req = ListRequest(filterStatus', filterEnvironment')]_vars

\* C26: list responses are applied in the order they arrive, with no
\* sequencing guard: a successful list response that arrives while another
\* list request is still in flight replaces the in-memory list, whichever
\* of the two was issued first, and the other request stays in flight; so
\* the list after both have resolved is the response that resolved last.
C26_NoSequencingGuard ==
    [][\A t \in tasks : \A u \in tasks \ {t} :
          (ListReceived(t) /\ Ok(t) /\ u.req.method = "GET") =>
             /\ keys' = t.data
             /\ error' = "null"
             /\ u \in tasks']_vars

\* the status filter was set to revoked while the list request of the mount
\* was in flight, and both requests have resolved: the list is the mount's
\* response, three active records, which resolved last
C26_Witness ==
    /\ tasks = {} /\ opCount = 1
    /\ filterStatus = "revoked" /\ filterEnvironment = "all"
    /\ error = "null"
    /\ Len(keys) = 3
    /\ \A i \in DOMAIN keys : keys[i].status = "active"

----------------------------------------------------------------------------
(* Claims about the generated secrets, checked under SpecTag *)

\* the secret is groot_<tag>_<suffix> with the tag of the environment
Tagged(secret, env) ==
    \E rand \in RandomSuffixes : secret = generateSecret(env, rand)

\* C27 as stated: when the request of a createKey or of a rotateKey has
\* been served with success, the secret of the record it wrote is
\* groot_<tag>_<suffix> with the tag of that record's environment (live
\* for production, test for staging, dev for development).
C27_Original ==
    [][\A t \in tasks : \A u \in tasks' :
          (Served(t, u) /\ t.op \in {"create", "rotate"} /\ Ok(u)) =>
             Tagged(u.data[1].secret, u.data[1].environment)]_vars

----------------------------------------------------------------------------
(* Claims about the edit mode of the rows, checked under SpecEdit *)

\* C28 as stated: the edit mode of a row is left only by that row's own
\* Save or Cancel, so when the handler that saved record A ends, with
\* success or failure, while another record B is the one being edited, B
\* stays in edit mode with its draft.
C28_Original ==
    [][\A t \in tasks :
          (/\ t.op = "save" /\ t \notin tasks'
           /\ editingId # NoId /\ editingId # t.id) =>
             /\ editingId' = editingId
             /\ editDraft' = editDraft]_vars

----------------------------------------------------------------------------
(* Claims about the displayed rows and the loading indicator, checked     *)
(* under SpecFilters                                                       *)

\* C29: every displayed row satisfies the current filter selection: its
\* status is the status filter or that filter is "all", and its
\* environment is the environment filter or that filter is "all", also
\* when the list came from a response to an older selection.
C29_DisplayedRowsMatch ==
    \A id \in 1..MaxId :
       Rendered(id) =>
          /\ filterStatus \in {"all", Find(keys, id).status}
          /\ filterEnvironment \in {"all", Find(keys, id).environment}

\* the list is the unfiltered response of the mount, which arrived after
\* the environment filter was set to production: one of its three records
\* is displayed
C29_Witness ==
    /\ tasks = {} /\ ~loading
    /\ filterEnvironment = "production"
    /\ Len(keys) = 3
    /\ Len(filteredKeys) = 1
    /\ Rendered(1)

\* C30 as stated: loading is true whenever at least one list request is in
\* flight, overlapping requests included, and it is false when no list
\* request is in flight.
C30_Original ==
    /\ (\E t \in tasks : t.req.method = "GET") => loading
    /\ (\A t \in tasks : t.req.method # "GET") => ~loading

=============================================================================
